---- MODULE Spec2Model ----
(***************************************************************************)
(* Model of qutebrowser/misc/elf.py: the ELF parser that locates .rodata   *)
(* in libQt5WebEngineCore.so and extracts the QtWebEngine/Chromium         *)
(* versions.  Files are sequences of bytes (0..255); the struct layouts,   *)
(* the seeks, the reads, the mmap call and the regular expression are      *)
(* modelled at byte level.  Field values stay below 2^31.                  *)
(***************************************************************************)
EXTENDS Integers, Sequences, FiniteSets, TLC

(***************************************************************************)
(* Bounds of the input family.                                             *)
(***************************************************************************)
MaxSections == 3

(***************************************************************************)
(* Byte strings of the source.                                             *)
(***************************************************************************)
\* b'\x7fELF'
ElfMagic == <<127, 69, 76, 70>>
\* b'.rodata'
RodataName == <<46, 114, 111, 100, 97, 116, 97>>
\* b'QtWebEngine/'
ReWebEngine == <<81, 116, 87, 101, 98, 69, 110, 103, 105, 110, 101, 47>>
\* b' Chrome/'
ReChrome == <<32, 67, 104, 114, 111, 109, 101, 47>>
\* [0-9.]
VersionClass == (48..57) \cup {46}

\* mmap.ALLOCATIONGRANULARITY: the offset= argument of mmap.mmap must be a
\* multiple of it, otherwise the mmap system call fails with EINVAL (OSError).
ALLOCATIONGRANULARITY == 4096

Min(a, b) == IF a < b THEN a ELSE b

RECURSIVE Sum(_)
Sum(s) == IF s = <<>> THEN 0 ELSE Head(s) + Sum(Tail(s))

RECURSIVE Zeros(_)
Zeros(n) == IF n = 0 THEN <<>> ELSE <<0>> \o Zeros(n - 1)

(***************************************************************************)
(* Enums.                                                                  *)
(***************************************************************************)
\* class Bitness: x32 = 1, x64 = 2
Bitness == {1, 2}
\* class Endianness: little = 1, big = 2
Endianness == {1, 2}
EndiannessLittle == 1

(***************************************************************************)
(* struct formats ('<': little-endian, standard sizes, no padding).  A     *)
(* format is the sequence of its field widths in bytes.                    *)
(***************************************************************************)
\* Ident._FORMAT = '<4sBBBBB7x'
IdentFormat == <<4, 1, 1, 1, 1, 1, 7>>
\* Header._FORMATS
HeaderFormats(bitness) ==
    IF bitness = 2 THEN <<2, 2, 4, 8, 8, 8, 4, 2, 2, 2, 2, 2, 2>>
                   ELSE <<2, 2, 4, 4, 4, 4, 4, 2, 2, 2, 2, 2, 2>>
\* SectionHeader._FORMATS
SectionHeaderFormats(bitness) ==
    IF bitness = 2 THEN <<4, 4, 8, 8, 8, 8, 4, 4, 8, 8>>
                   ELSE <<4, 4, 4, 4, 4, 4, 4, 4, 4, 4>>

\* struct.calcsize(fmt)
Calcsize(fmt) == Sum(fmt)

\* little-endian decoding of one integer field
RECURSIVE LittleEndian(_)
LittleEndian(bytes) ==
    IF bytes = <<>> THEN 0 ELSE Head(bytes) + 256 * LittleEndian(Tail(bytes))

\* struct.unpack(fmt, data) for a format of integer fields, len(data) = calcsize
RECURSIVE StructUnpack(_, _)
StructUnpack(fmt, data) ==
    IF fmt = <<>> THEN <<>>
    ELSE <<LittleEndian(SubSeq(data, 1, Head(fmt)))>>
         \o StructUnpack(Tail(fmt), SubSeq(data, Head(fmt) + 1, Len(data)))

\* fobj.read(size) at position pos: the bytes up to the end of the file
FileRead(f, pos, size) ==
    IF pos >= Len(f) THEN <<>> ELSE SubSeq(f, pos + 1, Min(pos + size, Len(f)))

(***************************************************************************)
(* Values of the dataclasses before they are assigned.                     *)
(***************************************************************************)
NoIdent == [magic |-> <<>>, klass |-> 0, data |-> 0, version |-> 0,
            osabi |-> 0, abiversion |-> 0]
NoHeader == [typ |-> 0, machine |-> 0, version |-> 0, entry |-> 0, phoff |-> 0,
             shoff |-> 0, flags |-> 0, ehsize |-> 0, phentsize |-> 0,
             phnum |-> 0, shentsize |-> 0, shnum |-> 0, shstrndx |-> 0]
NoSection == [name |-> 0, typ |-> 0, flags |-> 0, addr |-> 0, offset |-> 0,
              size |-> 0, link |-> 0, info |-> 0, addralign |-> 0, entsize |-> 0]
NoMap == [made |-> FALSE, open |-> FALSE, start |-> 0, length |-> 0]
NoMatch == [found |-> FALSE, start |-> 0, end |-> 0, g1 |-> <<>>, g2 |-> <<>>]
\* Optional[Versions]
None == [none |-> TRUE, webengine |-> <<>>, chromium |-> <<>>]
Versions(w, c) == [none |-> FALSE, webengine |-> w, chromium |-> c]

(***************************************************************************)
(* _unpack(fmt, fobj): read calcsize(fmt) bytes; an OSError of the read    *)
(* and a struct.error of a short buffer both become ParseError.            *)
(***************************************************************************)
Unpack(fmt, f, pos, oserror) ==
    LET size == Calcsize(fmt)
        data == IF oserror THEN <<>> ELSE FileRead(f, pos, size)
    IN  [ok   |-> ~oserror /\ Len(data) = size,
         why  |-> IF oserror THEN "read failed"
                  ELSE IF Len(data) # size THEN "short read" ELSE "ok",
         want |-> size,
         data |-> data]

\* Ident.parse after _unpack: the two enum conversions, then cls(...)
IdentFields(data) ==
    LET klass == data[5]
        dat   == data[6]
    IN  IF klass \notin Bitness THEN [why |-> "Invalid bitness", ident |-> NoIdent]
        ELSE IF dat \notin Endianness
             THEN [why |-> "Invalid endianness", ident |-> NoIdent]
        ELSE [why |-> "ok",
              ident |-> [magic |-> SubSeq(data, 1, 4), klass |-> klass,
                         data |-> dat, version |-> data[7], osabi |-> data[8],
                         abiversion |-> data[9]]]

\* IdentCheck without the check of ident.version
IdentCheckNoVersion(id) ==
    IF id.magic # ElfMagic THEN "Invalid magic"
    ELSE IF id.data # EndiannessLittle THEN "Big endian is unsupported"
    ELSE "ok"

\* IdentCheck with the byte order checked before the magic
IdentCheckEndianFirst(id) ==
    IF id.data # EndiannessLittle THEN "Big endian is unsupported"
    ELSE IF id.magic # ElfMagic THEN "Invalid magic"
    ELSE IF id.version # 1 THEN "Only version 1 is supported"
    ELSE "ok"

\* get_rodata_header: the three checks on the parsed Ident
IdentCheck(id) ==
    IF id.magic # ElfMagic THEN "Invalid magic"
    ELSE IF id.data # EndiannessLittle THEN "Big endian is unsupported"
    ELSE IF id.version # 1 THEN "Only version 1 is supported"
    ELSE "ok"

\* Header.parse: cls(*_unpack(fmt, fobj))
HeaderFields(bitness, data) ==
    LET v == StructUnpack(HeaderFormats(bitness), data)
    IN  [typ |-> v[1], machine |-> v[2], version |-> v[3], entry |-> v[4],
         phoff |-> v[5], shoff |-> v[6], flags |-> v[7], ehsize |-> v[8],
         phentsize |-> v[9], phnum |-> v[10], shentsize |-> v[11],
         shnum |-> v[12], shstrndx |-> v[13]]

\* SectionHeader.parse: cls(*_unpack(fmt, fobj))
SectionFields(bitness, data) ==
    LET v == StructUnpack(SectionHeaderFormats(bitness), data)
    IN  [name |-> v[1], typ |-> v[2], flags |-> v[3], addr |-> v[4],
         offset |-> v[5], size |-> v[6], link |-> v[7], info |-> v[8],
         addralign |-> v[9], entsize |-> v[10]]

\* header.shoff + i * header.shentsize
SectionOffset(h, idx) == h.shoff + idx * h.shentsize

\* ScanLimit one short: range(header.shnum - 1)
ScanLimitShort(h) == h.shnum - 1

\* range(header.shnum): the index after the last one scanned
ScanLimit(h) == h.shnum

\* bytes.split(b'\x00')[0]
RECURSIVE SplitFirst(_)
SplitFirst(bytes) ==
    IF bytes = <<>> \/ Head(bytes) = 0 THEN <<>>
    ELSE <<Head(bytes)>> \o SplitFirst(Tail(bytes))

\* SectionName without the split at the null byte: string_table[sh.name:]
SectionNameNoSplit(table, nameoff) ==
    IF nameoff >= Len(table) THEN <<>> ELSE SubSeq(table, nameoff + 1, Len(table))

\* string_table[sh.name:].split(b'\x00')[0]
SectionName(table, nameoff) ==
    SplitFirst(IF nameoff >= Len(table) THEN <<>>
               ELSE SubSeq(table, nameoff + 1, Len(table)))

\* name == b'.rodata'
IsRodata(name) == name = RodataName

(***************************************************************************)
(* mmap.mmap(fileno, length, offset=offset, access=ACCESS_READ) on a       *)
(* regular file of fsize bytes: the range check of the mmap module raises  *)
(* ValueError, the system call raises OSError; length 0 maps the file from *)
(* offset to its end.                                                      *)
(***************************************************************************)
MmapCall(fsize, length, offset, oserror) ==
    IF length = 0 /\ (fsize = 0 \/ offset >= fsize)
        THEN [res |-> "ValueError", start |-> 0, length |-> 0]
    ELSE IF length # 0 /\ (offset > fsize \/ fsize - offset < length)
        THEN [res |-> "ValueError", start |-> 0, length |-> 0]
    ELSE IF oserror \/ offset % ALLOCATIONGRANULARITY # 0
        THEN [res |-> "OSError", start |-> 0, length |-> 0]
    ELSE [res |-> "ok", start |-> offset,
          length |-> IF length = 0 THEN fsize - offset ELSE length]

(***************************************************************************)
(* re.search(br'QtWebEngine/([0-9.]+) Chrome/([0-9.]+)', rodata)           *)
(***************************************************************************)
\* does the literal lit occur in data at 0-based position p
LiteralAt(data, p, lit) ==
    /\ p + Len(lit) <= Len(data)
    /\ SubSeq(data, p + 1, p + Len(lit)) = lit

\* length of the longest run of [0-9.] in data from 0-based position p
RECURSIVE ClassRun(_, _)
ClassRun(data, p) ==
    IF p < Len(data) /\ data[p + 1] \in VersionClass
    THEN 1 + ClassRun(data, p + 1) ELSE 0

\* the match of the pattern anchored at 0-based position p
MatchAt(data, p) ==
    LET p1 == p + Len(ReWebEngine)
        r1 == ClassRun(data, p1)
        p2 == p1 + r1 + Len(ReChrome)
        r2 == ClassRun(data, p2)
    IN  IF /\ LiteralAt(data, p, ReWebEngine)
           /\ r1 >= 1
           /\ LiteralAt(data, p1 + r1, ReChrome)
           /\ r2 >= 1
        THEN [found |-> TRUE, start |-> p, end |-> p2 + r2,
              g1 |-> SubSeq(data, p1 + 1, p1 + r1),
              g2 |-> SubSeq(data, p2 + 1, p2 + r2)]
        ELSE NoMatch

\* the leftmost match, or NoMatch
ReSearch(data) ==
    LET starts == {p \in 0..Len(data) : MatchAt(data, p).found}
    IN  IF starts = {} THEN NoMatch
        ELSE MatchAt(data, CHOOSE p \in starts : \A q \in starts : p <= q)

\* bytes.decode('ascii'): the code points, UnicodeDecodeError on a byte >= 128
DecodeAscii(bytes) ==
    IF \E k \in 1..Len(bytes) : bytes[k] >= 128
    THEN [ok |-> FALSE, text |-> <<>>]
    ELSE [ok |-> TRUE, text |-> [k \in 1..Len(bytes) |-> bytes[k]]]

(***************************************************************************)
(* The input files.  A file is built from a description d:                 *)
(*   magic, klass, data, version   the identification block                *)
(*   names     the name offsets of the sections before the string table's  *)
(*   shnum     "all" (every entry), "none" (shnum = 0)                     *)
(*   strsize   the size field of the string-table section                  *)
(*   marker    the bytes after the primary header                          *)
(*   geom      offset and size of every section                            *)
(*   cut       where the file is truncated                                 *)
(* Layout: ident, header, marker bytes, section table, string table.       *)
(***************************************************************************)
\* struct.pack of one little-endian integer field of w bytes
RECURSIVE Pack(_, _)
Pack(v, w) == IF w = 0 THEN <<>> ELSE <<v % 256>> \o Pack(v \div 256, w - 1)

RECURSIVE PackAll(_, _)
PackAll(fmt, vals) ==
    IF fmt = <<>> THEN <<>>
    ELSE Pack(Head(vals), Head(fmt)) \o PackAll(Tail(fmt), Tail(vals))

RECURSIVE Concat(_)
Concat(ss) == IF ss = <<>> THEN <<>> ELSE Head(ss) \o Concat(Tail(ss))

\* b'\x00.rodata\x00s\x00': "" at 0, ".rodata" at 1, "rodata" at 2, "s" at 9
StringTableBytes == <<0>> \o RodataName \o <<0, 115, 0>>

\* b'QtWebEngine/5.1 Chrome/8.0', and the same with an empty first version
MarkerBytes(kind) ==
    IF kind = "marker"
    THEN ReWebEngine \o <<53, 46, 49>> \o ReChrome \o <<56, 46, 48>>
    ELSE ReWebEngine \o ReChrome \o <<56, 46, 48>>

MkFile(d) ==
    LET layout == IF d.klass = 1 THEN 1 ELSE 2
        hfmt   == HeaderFormats(layout)
        sfmt   == SectionHeaderFormats(layout)
        marker == MarkerBytes(d.marker)
        n      == Len(d.names)
        shoff  == Calcsize(IdentFormat) + Calcsize(hfmt) + Len(marker)
        stroff == shoff + (n + 1) * Calcsize(sfmt)
        full   == stroff + Len(StringTableBytes)
        covers == shoff
        off    == CASE d.geom = "far" -> ALLOCATIONGRANULARITY
                    [] d.geom = "unaligned" -> Calcsize(IdentFormat)
                    [] OTHER -> 0
        size   == CASE d.geom = "exact" -> covers
                    [] d.geom = "zero" -> 0
                    [] d.geom = "short" -> covers - 3
                    [] d.geom = "beyond" -> full + 1
                    [] d.geom = "whole" -> full
                    [] d.geom = "far" -> 1
                    [] OTHER -> Len(marker)
        ident  == (IF d.magic THEN ElfMagic ELSE <<127, 69, 76, 71>>)
                  \o <<d.klass, d.data, d.version, 0, 0>> \o Zeros(7)
        header == PackAll(hfmt, <<3, 62, 1, 0, 0, shoff, 0,
                                  Calcsize(IdentFormat) + Calcsize(hfmt), 0, 0,
                                  Calcsize(sfmt),
                                  IF d.shnum = "none" THEN 0 ELSE n + 1, n>>)
        entry(k) == PackAll(sfmt, <<d.names[k], 1, 2, 100 + k, off, size,
                                    0, 0, 1, 0>>)
        strent == PackAll(sfmt, <<9, 3, 0, 0, stroff, d.strsize, 0, 0, 1, 0>>)
        bytes  == ident \o header \o marker
                  \o Concat([k \in 1..n |-> entry(k)]) \o strent
                  \o StringTableBytes
        keep   == CASE d.cut = "none" -> Len(bytes)
                    [] d.cut = "empty" -> 0
                    [] d.cut = "ident" -> Calcsize(IdentFormat) - 6
                    [] d.cut = "header" -> Calcsize(IdentFormat) + 20
                    [] d.cut = "table" -> shoff + Calcsize(sfmt) + 7
                    [] d.cut = "strent" -> stroff - 1
                    [] OTHER -> stroff + 4
    IN  SubSeq(bytes, 1, keep)

Base == [magic |-> TRUE, klass |-> 2, data |-> 1, version |-> 1,
         names |-> <<9, 1>>, shnum |-> "all", strsize |-> Len(StringTableBytes),
         marker |-> "marker", geom |-> "exact", cut |-> "none"]

RECURSIVE SeqsUpTo(_, _)
SeqsUpTo(S, n) ==
    IF n = 0 THEN {<<>>}
    ELSE LET shorter == SeqsUpTo(S, n - 1)
         IN  shorter \cup {Append(q, x) : q \in shorter, x \in S}

\* identification blocks, valid and invalid in every combination
IdentInputs ==
    {[Base EXCEPT !.magic = m, !.klass = k, !.data = e, !.version = v] :
        m \in BOOLEAN, k \in {1, 2, 3}, e \in {0, 1, 2}, v \in {1, 2}}
\* section tables: every sequence of names, in both layouts
TableInputs ==
    {[Base EXCEPT !.klass = k, !.names = q, !.shnum = c] :
        k \in Bitness, q \in SeqsUpTo({1, 2, 9}, MaxSections), c \in {"all", "none"}}
    \cup {[Base EXCEPT !.names = q] : q \in {<<0, 40>>, <<40, 1, 0>>}}
\* string tables read short, without the final null, or cut inside the name
StringTableInputs ==
    {[Base EXCEPT !.klass = k, !.strsize = z, !.names = q] :
        k \in Bitness, z \in {5, 8, 16}, q \in {<<9, 1>>, <<9>>}}
\* the target section's range, with and without the marker
RegionInputs ==
    {[Base EXCEPT !.klass = k, !.geom = g, !.marker = m] :
        k \in Bitness,
        g \in {"exact", "zero", "short", "beyond", "whole", "far", "unaligned"},
        m \in {"marker", "nomarker"}}
\* truncated files
CutInputs ==
    {[Base EXCEPT !.klass = k, !.cut = c] :
        k \in Bitness,
        c \in {"empty", "ident", "header", "table", "strent", "strtab"}}

Inputs == {MkFile(d) : d \in IdentInputs \cup TableInputs \cup StringTableInputs
                               \cup RegionInputs \cup CutInputs}

(***************************************************************************)
(* The state of one call of parse_webenginecore().                         *)
(***************************************************************************)
VARIABLES
    file,          \* the bytes of libQt5WebEngineCore.so
    exists,        \* whether the file is there (lib_file.exists())
    pc,            \* the statement the call is at
    pos,           \* the position of the file object f
    handle,        \* whether f is open
    rodata,        \* the mmap object: made, open, start and length of the range
    ident,         \* Ident
    header,        \* Header
    shstr,         \* the string table's SectionHeader
    string_table,  \* the bytes read for the string table
    i,             \* the loop index of the scan
    sh,            \* the SectionHeader get_rodata_header returned
    match,         \* the result of re.search
    exc,           \* the exception being raised: "none" or its class
    why,           \* which raise statement raised it
    outcome,       \* "running", "returned" or "raised" (to the caller)
    result,        \* the value returned
    trace          \* the seeks, the reads and the parse calls made so far

vars == <<file, exists, pc, pos, handle, rodata, ident, header, shstr,
          string_table, i, sh, match, exc, why, outcome, result, trace>>

parsed == <<ident, header, shstr, string_table, i, sh, match>>

Event(op, a, b) == [op |-> op, a |-> a, b |-> b]

Init ==
    /\ \/ exists = TRUE /\ file \in Inputs
       \/ exists = FALSE /\ file = <<>>
    /\ pc = "exists"
    /\ pos = 0
    /\ handle = FALSE
    /\ rodata = NoMap
    /\ ident = NoIdent
    /\ header = NoHeader
    /\ shstr = NoSection
    /\ string_table = <<>>
    /\ i = 0
    /\ sh = NoSection
    /\ match = NoMatch
    /\ exc = "none"
    /\ why = "none"
    /\ outcome = "running"
    /\ result = None
    /\ trace = <<>>

\* raise inside the with block of _parse_from_path
Raise(kind, reason) ==
    /\ exc' = kind
    /\ why' = reason
    /\ pc' = "unwind"

NoRaise(next) ==
    /\ pc' = next
    /\ UNCHANGED <<exc, why>>

\* parse_webenginecore: if not lib_file.exists(): return None
Exists ==
    /\ pc = "exists"
    /\ IF exists
       THEN pc' = "open" /\ UNCHANGED <<outcome, result>>
       ELSE pc' = "done" /\ outcome' = "returned" /\ result' = None
    /\ UNCHANGED <<file, exists, pos, handle, rodata, parsed, exc, why, trace>>

\* the file is removed after the existence check and before the open
Unlink ==
    /\ pc = "open"
    /\ exists
    /\ exists' = FALSE
    /\ UNCHANGED <<file, pc, pos, handle, rodata, parsed, exc, why, outcome,
                   result, trace>>

\* _parse_from_path: with path.open('rb') as f
Open ==
    /\ pc = "open"
    /\ \E denied \in BOOLEAN :
        IF exists /\ ~denied
        THEN /\ handle' = TRUE
             /\ pos' = 0
             /\ trace' = Append(trace, Event("open", 0, 0))
             /\ NoRaise("ident")
        ELSE /\ exc' = "OSError"
             /\ why' = "open"
             /\ pc' = "catch"
             /\ UNCHANGED <<handle, pos, trace>>
    /\ UNCHANGED <<file, exists, rodata, parsed, outcome, result>>

\* get_rodata_header: ident = Ident.parse(f)
IdentParse ==
    /\ pc = "ident"
    /\ \E oserror \in BOOLEAN :
        LET u == Unpack(IdentFormat, file, pos, oserror)
            r == IdentFields(u.data)
        IN  /\ pos' = pos + Len(u.data)
            /\ trace' = Append(trace, Event("read", u.want, Len(u.data)))
            /\ IF ~u.ok THEN Raise("ParseError", u.why) /\ UNCHANGED ident
               ELSE IF r.why # "ok"
                    THEN Raise("ParseError", r.why) /\ UNCHANGED ident
               ELSE ident' = r.ident /\ NoRaise("check")
    /\ UNCHANGED <<file, exists, handle, rodata, header, shstr, string_table, i,
                   sh, match, outcome, result>>

\* get_rodata_header: the checks of ident.magic, ident.data, ident.version
Check ==
    /\ pc = "check"
    /\ IF IdentCheck(ident) # "ok"
       THEN Raise("ParseError", IdentCheck(ident))
       ELSE NoRaise("header")
    /\ UNCHANGED <<file, exists, pos, handle, rodata, parsed, outcome, result,
                   trace>>

\* get_rodata_header: header = Header.parse(f, bitness=ident.klass)
HeaderParse ==
    /\ pc = "header"
    /\ \E oserror \in BOOLEAN :
        LET u == Unpack(HeaderFormats(ident.klass), file, pos, oserror)
        IN  /\ pos' = pos + Len(u.data)
            /\ trace' = trace \o <<Event("Header.parse", pos, 0),
                                   Event("read", u.want, Len(u.data))>>
            /\ IF ~u.ok THEN Raise("ParseError", u.why) /\ UNCHANGED header
               ELSE /\ header' = HeaderFields(ident.klass, u.data)
                    /\ NoRaise("shstr")
    /\ UNCHANGED <<file, exists, handle, rodata, ident, shstr, string_table, i,
                   sh, match, outcome, result>>

\* get_rodata_header: f.seek(shoff + shstrndx * shentsize);
\* shstr = SectionHeader.parse(f, bitness=ident.klass)
StringTableHeader ==
    /\ pc = "shstr"
    /\ \E oserror \in BOOLEAN :
        LET at == SectionOffset(header, header.shstrndx)
            u  == Unpack(SectionHeaderFormats(ident.klass), file, at, oserror)
        IN  /\ pos' = at + Len(u.data)
            /\ trace' = trace \o <<Event("seek", at, 0),
                                   Event("SectionHeader.parse", at, 0),
                                   Event("read", u.want, Len(u.data))>>
            /\ IF ~u.ok THEN Raise("ParseError", u.why) /\ UNCHANGED shstr
               ELSE /\ shstr' = SectionFields(ident.klass, u.data)
                    /\ NoRaise("strtab")
    /\ UNCHANGED <<file, exists, handle, rodata, ident, header, string_table, i,
                   sh, match, outcome, result>>

\* get_rodata_header: f.seek(shstr.offset); string_table = f.read(shstr.size)
StringTableRead ==
    /\ pc = "strtab"
    /\ \E oserror \in BOOLEAN :
        LET data == FileRead(file, shstr.offset, shstr.size)
        IN  IF oserror
            THEN /\ pos' = shstr.offset
                 /\ trace' = trace \o <<Event("seek", shstr.offset, 0)>>
                 /\ Raise("OSError", "read failed")
                 /\ UNCHANGED string_table
            ELSE /\ pos' = shstr.offset + Len(data)
                 /\ trace' = trace \o <<Event("seek", shstr.offset, 0),
                                        Event("read", shstr.size, Len(data))>>
                 /\ string_table' = data
                 /\ NoRaise("scan")
    /\ i' = 0
    /\ UNCHANGED <<file, exists, handle, rodata, ident, header, shstr, sh, match,
                   outcome, result>>

\* get_rodata_header: one iteration of for i in range(header.shnum)
ScanStep ==
    /\ pc = "scan"
    /\ i < ScanLimit(header)
    /\ \E oserror \in BOOLEAN :
        LET at == SectionOffset(header, i)
            u  == Unpack(SectionHeaderFormats(ident.klass), file, at, oserror)
            s  == SectionFields(ident.klass, u.data)
        IN  /\ pos' = at + Len(u.data)
            /\ trace' = trace \o <<Event("seek", at, 0),
                                   Event("SectionHeader.parse", at, i + 1),
                                   Event("read", u.want, Len(u.data))>>
            /\ IF ~u.ok
               THEN Raise("ParseError", u.why) /\ UNCHANGED <<i, sh>>
               ELSE IF IsRodata(SectionName(string_table, s.name))
                    THEN sh' = s /\ NoRaise("mmap") /\ UNCHANGED i
               ELSE i' = i + 1 /\ NoRaise("scan") /\ UNCHANGED sh
    /\ UNCHANGED <<file, exists, handle, rodata, ident, header, shstr,
                   string_table, match, outcome, result>>

\* get_rodata_header: raise ParseError("No .rodata section found")
ScanEnd ==
    /\ pc = "scan"
    /\ i >= ScanLimit(header)
    /\ Raise("ParseError", "No .rodata section found")
    /\ UNCHANGED <<file, exists, pos, handle, rodata, parsed, outcome, result,
                   trace>>

\* _parse_from_path: rodata = mmap.mmap(f.fileno(), sh.size, offset=sh.offset)
Mmap ==
    /\ pc = "mmap"
    /\ \E oserror \in BOOLEAN :
        LET m == MmapCall(Len(file), sh.size, sh.offset, oserror)
        IN  /\ trace' = Append(trace, Event("mmap", sh.offset, sh.size))
            /\ IF m.res = "ValueError"
               THEN Raise("ValueError", "mmap") /\ UNCHANGED rodata
               ELSE IF m.res = "OSError"
                    THEN Raise("ParseError", "mmap failed") /\ UNCHANGED rodata
               ELSE /\ rodata' = [made |-> TRUE, open |-> TRUE,
                                  start |-> m.start, length |-> m.length]
                    /\ NoRaise("search")
    /\ UNCHANGED <<file, exists, pos, handle, parsed, outcome, result>>

\* _parse_from_path: match = re.search(..., rodata)
Search ==
    /\ pc = "search"
    /\ LET m == ReSearch(SubSeq(file, rodata.start + 1,
                                rodata.start + rodata.length))
       IN  IF m.found
           THEN match' = m /\ NoRaise("decode")
           ELSE Raise("ParseError", "No match in .rodata") /\ UNCHANGED match
    /\ UNCHANGED <<file, exists, pos, handle, rodata, ident, header, shstr,
                   string_table, i, sh, outcome, result, trace>>

\* _parse_from_path: return Versions(match.group(1).decode('ascii'), ...)
Decode ==
    /\ pc = "decode"
    /\ LET w == DecodeAscii(match.g1)
           c == DecodeAscii(match.g2)
       IN  IF w.ok /\ c.ok
           THEN result' = Versions(w.text, c.text) /\ NoRaise("unwind")
           ELSE Raise("ParseError", "decode failed") /\ UNCHANGED result
    /\ UNCHANGED <<file, exists, pos, handle, rodata, parsed, outcome, trace>>

\* leaving the with block closes f; the frame of _parse_from_path, which holds
\* the only reference to the mmap object, goes away on a return.  Nothing
\* closes the mmap object: it is unmapped when it is finalized, at once under
\* reference counting, later under a collector that defers.
Unwind ==
    /\ pc = "unwind"
    /\ handle' = FALSE
    /\ IF exc = "none"
       THEN /\ pc' = "done"
            /\ outcome' = "returned"
            /\ \E atonce \in BOOLEAN :
                rodata' = [rodata EXCEPT !.open = IF atonce THEN FALSE ELSE @]
       ELSE /\ pc' = "catch"
            /\ UNCHANGED <<outcome, rodata>>
    /\ UNCHANGED <<file, exists, pos, parsed, exc, why, result, trace>>

\* parse_webenginecore: except ParseError: log, return None; any other
\* exception propagates to the caller
Catch ==
    /\ pc = "catch"
    /\ pc' = "done"
    /\ IF exc = "ParseError"
       THEN outcome' = "returned" /\ result' = None
       ELSE outcome' = "raised" /\ UNCHANGED result
    /\ \E atonce \in BOOLEAN :
        rodata' = [rodata EXCEPT !.open = IF atonce THEN FALSE ELSE @]
    /\ UNCHANGED <<file, exists, pos, handle, parsed, exc, why, trace>>

\* the finalizer of an mmap object that was not finalized at once
Finalize ==
    /\ pc = "done"
    /\ rodata.open
    /\ rodata' = [rodata EXCEPT !.open = FALSE]
    /\ UNCHANGED <<file, exists, pc, pos, handle, parsed, exc, why, outcome,
                   result, trace>>

Next ==
    \/ Exists
    \/ Unlink
    \/ Open
    \/ IdentParse
    \/ Check
    \/ HeaderParse
    \/ StringTableHeader
    \/ StringTableRead
    \/ ScanStep
    \/ ScanEnd
    \/ Mmap
    \/ Search
    \/ Decode
    \/ Unwind
    \/ Catch
    \/ Finalize

Spec == Init /\ [][Next]_vars

TypeOK ==
    /\ pc \in {"exists", "open", "ident", "check", "header", "shstr", "strtab",
               "scan", "mmap", "search", "decode", "unwind", "catch", "done"}
    /\ exc \in {"none", "ParseError", "OSError", "ValueError"}
    /\ outcome \in {"running", "returned", "raised"}
    /\ handle \in BOOLEAN

(***************************************************************************)
(* Definitions the properties are stated with.  They read the file's bytes *)
(* directly, not the values the parser computed from them.                 *)
(***************************************************************************)
HasEvent(op) == \E k \in 1..Len(trace) : trace[k].op = op

IdentBlockRead == HasEvent("read") /\ why # "read failed"

\* the identification block is complete and violates a validity condition
IdentBlockInvalid(f) ==
    /\ Len(f) >= Calcsize(IdentFormat)
    /\ \/ SubSeq(f, 1, 4) # ElfMagic
       \/ f[5] \notin {1, 2}
       \/ f[6] \notin {1, 2}
       \/ f[6] = 2
       \/ f[7] # 1

\* the first violated condition, in the order the code checks them
CodeOrderReason(f) ==
    IF Len(f) < Calcsize(IdentFormat) THEN "short read"
    ELSE IF f[5] \notin {1, 2} THEN "Invalid bitness"
    ELSE IF f[6] \notin {1, 2} THEN "Invalid endianness"
    ELSE IF SubSeq(f, 1, 4) # ElfMagic THEN "Invalid magic"
    ELSE IF f[6] = 2 THEN "Big endian is unsupported"
    ELSE IF f[7] # 1 THEN "Only version 1 is supported"
    ELSE "ok"

\* the first violated condition, in the order of the specification's list
ListOrderReason(f) ==
    IF Len(f) < Calcsize(IdentFormat) THEN "short read"
    ELSE IF SubSeq(f, 1, 4) # ElfMagic THEN "Invalid magic"
    ELSE IF f[5] \notin {1, 2} THEN "Invalid bitness"
    ELSE IF f[6] \notin {1, 2} THEN "Invalid endianness"
    ELSE IF f[6] = 2 THEN "Big endian is unsupported"
    ELSE IF f[7] # 1 THEN "Only version 1 is supported"
    ELSE "ok"

\* the section-header entries the scan has parsed, in the order it parsed them
ScanVisits == SelectSeq(trace, LAMBDA e : e.op = "SectionHeader.parse" /\ e.b > 0)

\* the shnum field, decoded from the bytes of the primary header
ShnumOfFile(f) ==
    LET h == Calcsize(IdentFormat) + Calcsize(HeaderFormats(f[5]))
    IN  f[h - 3] + 256 * f[h - 2]

EntrySize == Calcsize(SectionHeaderFormats(ident.klass))

\* entry j of the section table lies inside the file
EntryReadable(j) == header.shoff + j * header.shentsize + EntrySize <= Len(file)

\* entry j of the section table, from the bytes at shoff + j * shentsize
EntryAt(j) ==
    SectionFields(ident.klass,
                  SubSeq(file, header.shoff + j * header.shentsize + 1,
                         header.shoff + j * header.shentsize + EntrySize))

\* the name of entry j: the string-table bytes from its name offset up to,
\* not including, the next null byte
EntryName(j) ==
    LET off   == EntryAt(j).name
        nulls == {q \in (off + 1)..Len(string_table) : string_table[q] = 0}
        stop  == IF nulls = {} THEN Len(string_table) + 1
                 ELSE CHOOSE q \in nulls : \A r \in nulls : q <= r
    IN  IF off >= Len(string_table) THEN <<>>
        ELSE SubSeq(string_table, off + 1, stop - 1)

\* the indices of the section table whose entry resolves to the target name
Matching ==
    {j \in 0..(header.shnum - 1) : EntryReadable(j) /\ EntryName(j) = RodataName}

Lowest(S) == CHOOSE j \in S : \A k \in S : j <= k

\* get_rodata_header has returned a section header
Located == pc \in {"mmap", "search", "decode"} \/ HasEvent("mmap")

NotFound == why = "No .rodata section found"

\* the string table has been read: the scan has been entered
ScanEntered == Len(SelectSeq(trace, LAMBDA e : e.op = "read")) >= 4

(***************************************************************************)
(* Properties.                                                             *)
(***************************************************************************)

\* C1: whatever fails inside the pipeline, parse_webenginecore returns (a
\* Versions pair or None); no exception reaches the caller.
C1_NothingPropagates == pc = "done" => outcome = "returned"

\* C2: when the identification block violates a validity condition, the run
\* ends in a ParseError raised by the identification checks, and it never
\* parses the primary header or a section header and never seeks.
C2_InvalidIdentStopsParsing ==
    IdentBlockInvalid(file) =>
        /\ pc \notin {"header", "shstr", "strtab", "scan", "mmap", "search",
                      "decode"}
        /\ ~HasEvent("Header.parse")
        /\ ~HasEvent("SectionHeader.parse")
        /\ ~HasEvent("seek")
        /\ pc = "done" /\ HasEvent("read") =>
            /\ exc = "ParseError"
            /\ outcome = "returned"
            /\ result = None
            /\ why \in {"Invalid bitness", "Invalid endianness", "Invalid magic",
                        "Big endian is unsupported",
                        "Only version 1 is supported", "read failed"}

C2_Witness ==
    /\ pc = "done"
    /\ IdentBlockInvalid(file)
    /\ SubSeq(file, 1, 4) = ElfMagic
    /\ why = "Only version 1 is supported"

\* C3: every read yields the number of bytes asked for or the run fails at
\* once; no run goes on with a buffer shorter than requested.
C3_NoShortBufferContinues ==
    (\E k \in 1..Len(trace) : trace[k].op = "read" /\ trace[k].b < trace[k].a)
        => exc = "ParseError"

\* C4: when the range of the located section does not lie inside the file,
\* mapping it fails with a ParseError, which the call turns into None.
C4_RangeBeyondFileIsNoResult ==
    (/\ pc = "done"
     /\ HasEvent("mmap")
     /\ sh.offset + sh.size > Len(file))
        => exc = "ParseError" /\ outcome = "returned" /\ result = None

C6_ScanVisitsEveryEntry ==
    /\ \A k \in 1..Len(ScanVisits) :
        /\ ScanVisits[k].b = k
        /\ ScanVisits[k].a = header.shoff + (k - 1) * header.shentsize
    /\ NotFound =>
        /\ Len(ScanVisits) = ShnumOfFile(file)
        /\ Matching = {}
        /\ exc = "ParseError"
    /\ (/\ pc = "done"
        /\ ScanEntered
        /\ Matching = {}
        /\ why \notin {"short read", "read failed"}) => NotFound

C6_Witness == pc = "done" /\ NotFound /\ ShnumOfFile(file) >= 3

\* C7: the section header get_rodata_header returns is the entry of the
\* lowest index whose name, resolved in the string table, is the target name;
\* the scan ends without one only if no entry resolves to it.
C7_FirstMatchReturned ==
    /\ Located => Matching # {} /\ sh = EntryAt(Lowest(Matching))
    /\ NotFound => Matching = {}

C7_Witness ==
    /\ Located
    /\ Cardinality(Matching) >= 2
    /\ Lowest(Matching) >= 1
    /\ sh = EntryAt(Lowest(Matching))

\* C8: a file that is missing when it is looked for or when it is opened
\* gives None, and nothing of it is opened or read.
C8_MissingFileIsNoResult ==
    pc = "done" /\ ~exists =>
        outcome = "returned" /\ result = None /\ trace = <<>>

\* C9: the bytes searched are the size bytes at offset of the located
\* section, also for size 0, and a match lies inside them.
C9_SearchedRangeIsSection ==
    rodata.made =>
        /\ rodata.start = sh.offset
        /\ rodata.length = sh.size
        /\ match.found => match.end <= sh.size

\* C10 as stated: the failure reported for the identification block is the
\* first violated condition in the order short read, magic, class, byte-order
\* value, big-endian, version.
C10_ListOrder ==
    pc = "done" /\ IdentBlockRead /\ ListOrderReason(file) # "ok"
        => why = ListOrderReason(file)

\* C10 amended: the failure reported is the first violated condition in the
\* order short read, class, byte-order value, magic, big-endian, version.
C10_CodeOrder ==
    pc = "done" /\ IdentBlockRead /\ CodeOrderReason(file) # "ok"
        => exc = "ParseError" /\ why = CodeOrderReason(file)

C10_Witness ==
    /\ pc = "done"
    /\ Len(file) >= Calcsize(IdentFormat)
    /\ SubSeq(file, 1, 4) # ElfMagic
    /\ file[5] \notin {1, 2}
    /\ why = "Invalid bitness"

====
